---- MODULE Spec2Model ----
(***************************************************************************)
(* nexus-cli: the search / list / download commands over the snapshot      *)
(* store in ./tmp, and the token-following paginator of NexusClient.       *)
(*                                                                         *)
(* One command invocation runs at a time.  The search endpoint, the        *)
(* download endpoint, the local file system and the wall clock are the     *)
(* environment: their answers are chosen nondeterministically.             *)
(***************************************************************************)
EXTENDS Integers, Sequences, FiniteSets, TLC

\* ------------------------------------------------------------------ bounds
MaxRuns == 2
MaxClock == 2
MaxPatterns == 2
MaxPageItems == 2

\* ------------------------------------------------------- strings and paths
\* A Python str whose characters matter is a sequence of one-character
\* strings; Str turns a sequence of them into itself and only marks intent.
Slash == "/"

RECURSIVE Split(_, _)
\* str.split(sep): the segments between occurrences of sep ("" gives <<"">>).
Split(s, sep) ==
    IF \A i \in 1..Len(s) : s[i] # sep
    THEN << s >>
    ELSE LET i == CHOOSE k \in 1..Len(s) :
                      s[k] = sep /\ \A j \in 1..(k - 1) : s[j] # sep
         IN << SubSeq(s, 1, i - 1) >> \o Split(SubSeq(s, i + 1, Len(s)), sep)

RECURSIVE Join(_, _)
\* sep.join(parts)
Join(parts, sep) ==
    IF Len(parts) = 0 THEN << >>
    ELSE IF Len(parts) = 1 THEN parts[1]
    ELSE parts[1] \o << sep >> \o Join(Tail(parts), sep)

StartsWith(s, p) == Len(s) >= Len(p) /\ SubSeq(s, 1, Len(p)) = p
EndsWith(s, p) == Len(s) >= Len(p) /\ SubSeq(s, Len(s) - Len(p) + 1, Len(s)) = p

\* ------------------------------------------------------------------ assets
\* An asset is the JSON object of one search hit: a mapping from field names
\* to strings.  A field may be missing (dict.get then gives its default).
AssetKeys == << "repository", "path", "downloadUrl" >>

Get(d, key, default) == IF key \in DOMAIN d THEN d[key] ELSE default

AssetDeep ==
    [repository |-> << "r", "1" >>,
     path |-> << "P", "/", "c", "/", "f" >>,
     downloadUrl |-> << "/", "u", "1" >>]
AssetFlat ==
    [repository |-> << "r", "2" >>,
     path |-> << "c" >>,
     downloadUrl |-> << "h", "t", "t", "p", ":", "u", "2" >>]
AssetNoUrl ==
    [repository |-> << "r", "1" >>,
     path |-> << "c", "/", "g" >>]
AssetEmptyUrl ==
    [repository |-> << "r", "2" >>,
     path |-> << "c", "/", "h" >>,
     downloadUrl |-> << >>]
AssetOther ==
    [repository |-> << "r", "2" >>,
     path |-> << "d", "/", "g" >>,
     downloadUrl |-> << "/", "u", "3" >>]
AssetTop ==
    [repository |-> << "r", "1" >>,
     path |-> << "e" >>,
     downloadUrl |-> << "/", "u", "4" >>]
Assets == { AssetDeep, AssetFlat, AssetNoUrl, AssetEmptyUrl, AssetOther, AssetTop }

Patterns == { "A/*", "B/*" }

RECURSIVE SeqsUpTo(_, _)
SeqsUpTo(S, n) ==
    IF n = 0 THEN { << >> }
    ELSE LET shorter == SeqsUpTo(S, n - 1)
         IN shorter \cup { Append(s, x) : s \in { t \in shorter : Len(t) = n - 1 }, x \in S }

RECURSIVE Flatten(_)
\* concatenation of a sequence of sequences
Flatten(ss) == IF Len(ss) = 0 THEN << >> ELSE Head(ss) \o Flatten(Tail(ss))

RECURSIVE SumSeq(_)
SumSeq(ns) == IF Len(ns) = 0 THEN 0 ELSE Head(ns) + SumSeq(Tail(ns))

\* --------------------------------------------------------- wall clock time
\* datetime.now() is the base instant plus `clock` seconds.  The base lies two
\* seconds before midnight of a month's last day, so a few seconds cross a
\* minute, an hour, a day and a month, and the month goes from one digit to two.
Base == [year |-> 2025, month |-> 9, day |-> 30, hour |-> 23, minute |-> 59, second |-> 58]

IsLeap(y) == (y % 4 = 0 /\ y % 100 # 0) \/ y % 400 = 0

DaysInMonth(y, m) ==
    IF m = 2 THEN (IF IsLeap(y) THEN 29 ELSE 28)
    ELSE IF m \in { 4, 6, 9, 11 } THEN 30 ELSE 31

RECURSIVE AddDays(_, _, _, _)
\* the calendar date n days after y-m-d
AddDays(y, m, d, n) ==
    IF n = 0 THEN [year |-> y, month |-> m, day |-> d]
    ELSE IF d < DaysInMonth(y, m) THEN AddDays(y, m, d + 1, n - 1)
    ELSE IF m < 12 THEN AddDays(y, m + 1, 1, n - 1)
    ELSE AddDays(y + 1, 1, 1, n - 1)

\* datetime.now() when the clock shows t
Now(t) ==
    LET secs == Base.hour * 3600 + Base.minute * 60 + Base.second + t
        date == AddDays(Base.year, Base.month, Base.day, secs \div 86400)
        sod == secs % 86400
    IN [year |-> date.year, month |-> date.month, day |-> date.day,
        hour |-> sod \div 3600, minute |-> (sod % 3600) \div 60, second |-> sod % 60]

RECURSIVE Digits(_)
\* the decimal digits of n without padding
Digits(n) == IF n < 10 THEN << n >> ELSE Append(Digits(n \div 10), n % 10)

\* a strftime numeric field left without its zero padding
PadNoZero(n, w) == Digits(n)

\* a strftime numeric field: the digits of n, zero-padded to width w
Pad(n, w) ==
    LET ds == Digits(n)
    IN IF Len(ds) >= w THEN ds ELSE [i \in 1..(w - Len(ds)) |-> 0] \o ds

\* dt.strftime("%Y%m%d%H%M%S"), as a sequence of digits
StrfTimestamp(dt) ==
    Pad(dt.year, 4) \o Pad(dt.month, 2) \o Pad(dt.day, 2)
        \o Pad(dt.hour, 2) \o Pad(dt.minute, 2) \o Pad(dt.second, 2)

\* dt.strftime("%Y%m%d")
StrfDate(dt) == Pad(dt.year, 4) \o Pad(dt.month, 2) \o Pad(dt.day, 2)

\* -------------------------------------------------------------- file names
\* A file name is the sequence of its character codes, so that comparing two
\* names is Python's comparison of two str.
DigitCode(d) == 48 + d
PrefixCodes == << 115, 101, 97, 114, 99, 104, 95 >>   \* "search_"
SuffixCodes == << 46, 106, 115, 111, 110 >>           \* ".json"

\* f"search_{search_time}.json"
SearchFileName(search_time) ==
    PrefixCodes \o [i \in 1..Len(search_time) |-> DigitCode(search_time[i])] \o SuffixCodes

\* fnmatch of a name against "search_*.json"
GlobMatch(name) ==
    /\ Len(name) >= Len(PrefixCodes) + Len(SuffixCodes)
    /\ StartsWith(name, PrefixCodes)
    /\ EndsWith(name, SuffixCodes)

\* a < b for two str
StrLess(a, b) ==
    \E k \in 1..(Len(b)) :
        /\ \A j \in 1..(k - 1) : j <= Len(a) /\ a[j] = b[j]
        /\ \/ k = Len(a) + 1
           \/ k <= Len(a) /\ a[k] < b[k]

\* sorted(search_files)[-1]
LatestFile(found) == CHOOSE f \in found : \A g \in found : g = f \/ StrLess(g, f)

\* a date cut that keeps the hour as well
FileDateWithHour(name) ==
    LET stem == SubSeq(name, 1, Len(name) - Len(SuffixCodes))
        rest == SubSeq(stem, Len(PrefixCodes) + 1, Len(stem))
        cut == IF Len(rest) > 10 THEN SubSeq(rest, 1, 10) ELSE rest
    IN [i \in 1..Len(cut) |-> cut[i] - 48]

\* file_name.replace("search_", "")[:8] of the file's stem, as digits
FileDate(name) ==
    LET stem == SubSeq(name, 1, Len(name) - Len(SuffixCodes))
        rest == SubSeq(stem, Len(PrefixCodes) + 1, Len(stem))
        cut == IF Len(rest) > 8 THEN SubSeq(rest, 1, 8) ELSE rest
    IN [i \in 1..Len(cut) |-> cut[i] - 48]

\* -------------------------------------------------------- snapshot as JSON
\* The text of a snapshot file is a sequence of JSON tokens; white space is
\* not modelled.  A token is a punctuation mark, an object key or a string.
Punct(k) == [kind |-> k, name |-> "", text |-> << >>]
KeyTok(k) == [kind |-> "key", name |-> k, text |-> << >>]
StrTok(s) == [kind |-> "str", name |-> "", text |-> s]

RECURSIVE DumpMembers(_, _)
DumpMembers(obj, keys) ==
    IF Len(keys) = 0 THEN << >>
    ELSE << KeyTok(Head(keys)), Punct(":"), StrTok(obj[Head(keys)]) >>
           \o (IF Len(keys) > 1 THEN << Punct(",") >> ELSE << >>)
           \o DumpMembers(obj, Tail(keys))

\* the keys of an object in the order they are written
KeysOf(obj) == SelectSeq(AssetKeys, LAMBDA k : k \in DOMAIN obj)

DumpObject(obj) == << Punct("{") >> \o DumpMembers(obj, KeysOf(obj)) \o << Punct("}") >>

RECURSIVE DumpElements(_)
DumpElements(objs) ==
    IF Len(objs) = 0 THEN << >>
    ELSE DumpObject(Head(objs))
           \o (IF Len(objs) > 1 THEN << Punct(",") >> ELSE << >>)
           \o DumpElements(Tail(objs))

\* a dump that writes every element but the last one
JsonDumpLosing(objs) ==
    << Punct("[") >>
        \o DumpElements(IF Len(objs) = 0 THEN objs ELSE SubSeq(objs, 1, Len(objs) - 1))
        \o << Punct("]") >>

\* json.dump(all_assets, f, indent=2, ensure_ascii=False)
JsonDump(objs) == << Punct("[") >> \o DumpElements(objs) \o << Punct("]") >>

ParseError == [ok |-> FALSE, value |-> << >>]

RECURSIVE Parse(_, _, _, _, _, _)
\* A recursive-descent reading of an array of objects with string members.
\* i: next token; mode: what is expected; cur: the object being read;
\* key: the member name just read; acc: the objects read so far.
Parse(toks, i, mode, cur, key, acc) ==
    IF i > Len(toks)
    THEN (IF mode = "end" THEN [ok |-> TRUE, value |-> acc] ELSE ParseError)
    ELSE LET t == toks[i] IN
         CASE mode = "start" /\ t.kind = "[" -> Parse(toks, i + 1, "first", cur, key, acc)
           [] mode = "first" /\ t.kind = "]" -> Parse(toks, i + 1, "end", cur, key, acc)
           [] mode \in { "first", "elem" } /\ t.kind = "{" ->
                  Parse(toks, i + 1, "firstkey", << >>, key, acc)
           [] mode = "firstkey" /\ t.kind = "}" ->
                  Parse(toks, i + 1, "after_elem", cur, key, Append(acc, cur))
           [] mode \in { "firstkey", "key" } /\ t.kind = "key" ->
                  Parse(toks, i + 1, "colon", cur, t.name, acc)
           [] mode = "colon" /\ t.kind = ":" -> Parse(toks, i + 1, "value", cur, key, acc)
           [] mode = "value" /\ t.kind = "str" ->
                  Parse(toks, i + 1, "after_member", (key :> t.text) @@ cur, key, acc)
           [] mode = "after_member" /\ t.kind = "," -> Parse(toks, i + 1, "key", cur, key, acc)
           [] mode = "after_member" /\ t.kind = "}" ->
                  Parse(toks, i + 1, "after_elem", cur, key, Append(acc, cur))
           [] mode = "after_elem" /\ t.kind = "," -> Parse(toks, i + 1, "elem", cur, key, acc)
           [] mode = "after_elem" /\ t.kind = "]" -> Parse(toks, i + 1, "end", cur, key, acc)
           [] OTHER -> ParseError

\* json.load(f): the decoded list, or a decoding error
JsonLoad(toks) == Parse(toks, 1, "start", << >>, "", << >>)

\* ------------------------------------------------------ the search service
\* Python's None (also a JSON null and a key that is absent for dict.get)
None == "None"
\* a test that takes only None for no token
FalsyNoneOnly(x) == x = None

\* `not x` for the values a continuation token can take
Falsy(x) == x \in { None, "" }

HttpOk == 200
HttpServerError == 500

\* The opaque continuation tokens the service hands out; the service reads
\* the k-th one as "continue after the first k - 1 matches".
TokenNames == << "t0", "t1", "t2", "t3", "t4", "t5", "t6", "t7" >>
TokenFor(offset) == TokenNames[offset + 1]
OffsetOf(token) == (CHOOSE k \in 1..Len(TokenNames) : TokenNames[k] = token) - 1

Min(a, b) == IF a < b THEN a ELSE b

\* What the search endpoint may answer to GET /service/rest/v1/search/assets
\* with query parameters req, when it holds the matches catalogue[name]:
\* an error status, or the next page of the matches.  A page holds up to
\* MaxPageItems items (the first page may be empty and still carry a token);
\* the last page carries the service's null or empty token.
ServerResponses(catalogue, req) ==
    LET matches == catalogue.matches[req["name"]]
        first == "continuationToken" \notin DOMAIN req
        off == IF first THEN 0 ELSE OffsetOf(req["continuationToken"])
        left == Len(matches) - off
        sizes == (IF first THEN 0 ELSE 1)..Min(MaxPageItems, left)
        tokens(n) == IF off + n = Len(matches) THEN { catalogue.last_token } ELSE { TokenFor(off + n) }
    IN { [status |-> HttpServerError, items |-> << >>, token |-> None] }
       \cup UNION { { [status |-> HttpOk,
                       items |-> SubSeq(matches, off + 1, off + n),
                       token |-> tk] : tk \in tokens(n) } : n \in sizes }

\* What a failed write leaves in the file: the chunks written before the
\* failure, here the first one.
PartialTexts(text) == { SubSeq(text, 1, 1) }

\* file name f now holds text
WriteFile(dir, f, text) ==
    [g \in DOMAIN dir \cup { f } |-> IF g = f THEN text ELSE dir[g]]

\* ------------------------------------------------------------------- state
VARIABLES
    clock,              \* seconds of wall-clock time since the base instant
    server,             \* the search service: its matches per pattern, its last-page token
    tmp_exists,         \* whether the directory ./tmp exists
    store,              \* the files of ./tmp: file name -> text (JSON tokens)
    created,            \* file name -> clock at the start of the search that wrote it
    runs,               \* command bodies (search, download, list) run so far
    cmd,                \* the command being run
    pc,                 \* where the invocation stands
    exit_code,          \* exit status of the invocation (-1 while it runs)
    client,             \* the NexusClient of the invocation: none, open, closed
    patterns,           \* --pattern values, in the order given
    force_search,       \* --force-search
    pat_idx,            \* index of the pattern being searched
    json_file,          \* name of the snapshot file of this search
    all_assets,         \* the assets accumulated by the search
    count,              \* matches counted for the current pattern
    continuation_token, \* _paginate: token of the last response
    current_params,     \* _paginate: query parameters of the last request
    requests,           \* the requests the running _paginate sent, in order
    responses,          \* the answers it received, in order
    report,             \* the "N asset(s) found" lines: pattern and count
    files,              \* the files the downloads wrote, as paths from the working directory
    dirs,               \* the directories the downloads created, as paths
    latest_file,        \* download, list: the snapshot file chosen
    assets,             \* download, list: the list decoded from it
    output_path,        \* download: the destination root of this run
    idx,                \* download: index of the asset being handled
    success_count,      \* download: assets downloaded
    fail_count,         \* download: assets skipped or failed
    outcomes,           \* download: the outcome printed for each asset handled
    stale,              \* list: whether the STALED warning was printed
    listed,             \* list: the "repository: path" lines printed
    listing,            \* NexusClient.list_directory: the call and its outcome
    reader,             \* a list or download invocation of another process
    awaiting,           \* the I/O operation the command's coroutine is suspended on
    in_flight           \* the I/O operations begun and not yet finished, in order

envVars == << clock, server, tmp_exists, store, created, files, dirs >>
runVars == << runs, cmd, pc, exit_code, client, patterns, force_search >>
searchVars == << pat_idx, json_file, all_assets, count, continuation_token,
                 current_params, requests, responses, report >>
readVars == << latest_file, assets, output_path, idx, success_count, fail_count,
               outcomes, stale, listed >>
ioVars == << awaiting, in_flight >>
otherVars == << listing, reader >>
sideVars == << otherVars, ioVars >>
vars == << envVars, runVars, searchVars, readVars, sideVars >>

\* The services the commands may talk to: the matches of each pattern, in
\* the order the service lists them, and the token the service puts on a last
\* page (a JSON null or an empty string).  In the first, one asset matches
\* both patterns, one has no download locator and one an empty one; in the second, a pattern
\* matches nothing.
Catalogues ==
    { [matches |-> [p \in Patterns |-> IF p = "A/*" THEN << AssetFlat, AssetDeep >>
                                                    ELSE << AssetDeep, AssetNoUrl, AssetEmptyUrl >>],
       last_token |-> None],
      [matches |-> [p \in Patterns |-> IF p = "A/*" THEN << >>
                                                    ELSE << AssetOther, AssetTop >>],
       last_token |-> ""] }
Repository == "my-repo"
NoFile == << >>

\* list_directory has not been called
NoListing == [pc |-> "idle"]

\* no other process has invoked a command
NoReader == [pc |-> "idle"]

\* the coroutine is suspended on no operation
NoOp == [kind |-> "none"]

\* a call whose result nobody waits for
AwaitedNever(op) == NoOp

\* `await call(...)`, and a blocking call: the caller goes on when op is over
Awaited(op) == op

\* op begins
Begin(op) ==
    /\ awaiting = NoOp
    /\ awaiting' = Awaited(op)
    /\ in_flight' = Append(in_flight, op)

\* the operation awaited is over
Finish ==
    /\ awaiting' = NoOp
    /\ in_flight' = SelectSeq(in_flight, LAMBDA op : op # awaiting)

\* The working directory is fresh, or holds the snapshot that
\* `nexus search -p "A/*"` left there one second before the base instant.
EarlierClock == 0 - 1
EarlierFile == SearchFileName(StrfTimestamp(Now(EarlierClock)))

Init ==
    /\ clock = 0
    /\ server \in Catalogues
    /\ \/ /\ tmp_exists = FALSE
          /\ store = << >>
          /\ created = << >>
       \/ /\ tmp_exists = TRUE
          /\ store = WriteFile(<< >>, EarlierFile, JsonDump(server.matches["A/*"]))
          /\ created = WriteFile(<< >>, EarlierFile, EarlierClock)
    /\ runs = 0
    /\ cmd = "none"
    /\ pc = "idle"
    /\ exit_code = -1
    /\ client = "none"
    /\ patterns = << >>
    /\ force_search = FALSE
    /\ pat_idx = 0
    /\ json_file = NoFile
    /\ all_assets = << >>
    /\ count = 0
    /\ continuation_token = None
    /\ current_params = << >>
    /\ requests = << >>
    /\ responses = << >>
    /\ report = << >>
    /\ files = { }
    /\ dirs = { }
    /\ latest_file = NoFile
    /\ assets = << >>
    /\ output_path = << >>
    /\ idx = 0
    /\ success_count = 0
    /\ fail_count = 0
    /\ outcomes = << >>
    /\ stale = FALSE
    /\ listed = << >>
    /\ listing = NoListing
    /\ reader = NoReader
    /\ awaiting = NoOp
    /\ in_flight = << >>

\* a scope that leaves the transport as it is
ReleaseNever(c) == c

\* the end of `async with NexusClient(...)`, on every way out of the block:
\* __aexit__ calls close(), which closes the transport
Release(c) == "closed"

\* the locals of a fresh invocation
ResetSearch ==
    /\ pat_idx' = 0
    /\ json_file' = NoFile
    /\ all_assets' = << >>
    /\ count' = 0
    /\ continuation_token' = None
    /\ current_params' = << >>
    /\ requests' = << >>
    /\ responses' = << >>
    /\ report' = << >>

ResetRead ==
    /\ latest_file' = NoFile
    /\ assets' = << >>
    /\ output_path' = << >>
    /\ idx' = 0
    /\ success_count' = 0
    /\ fail_count' = 0
    /\ outcomes' = << >>
    /\ stale' = FALSE
    /\ listed' = << >>

\* a command that runs n more bodies may be invoked
CanInvoke(n) == pc \in { "idle", "exited" } /\ runs + n <= MaxRuns

\* The wall clock advances by a second.  Between two readings of the clock
\* only the time elapsed matters, so the clock is advanced where a reading
\* follows: when a command body is entered, and at the end of the pattern loop.
Tick ==
    /\ clock < MaxClock
    /\ awaiting = NoOp
    /\ \/ pc \in { "s_enter", "d_find", "l_find" }
       \/ pc = "s_pattern" /\ pat_idx > Len(patterns)
    /\ clock' = clock + 1
    /\ UNCHANGED << server, tmp_exists, store, created, files, dirs,
                    runVars, searchVars, readVars >>
    /\ UNCHANGED sideVars

\* an option parser that accepts a command line without --pattern
MissingParameterAccepted(pats) == FALSE

\* click's check of `--pattern`, declared multiple=True, required=True
MissingParameter(pats) == Len(pats) = 0

\* the exit status of a click usage error
UsageError == 2

\* `nexus search -p ...`: click parses the options and runs _search_async.
\* --pattern is required: without one click reports a usage error (status 2)
\* and the command body does not run.  variant tells the package: "search"
\* is nexus_cli (with the snapshot), "nexus_search" is nexus (perform_search).
SearchInvoke(variant, pats) ==
    /\ CanInvoke(IF MissingParameter(pats) THEN 0 ELSE 1)
    /\ runs' = runs + (IF MissingParameter(pats) THEN 0 ELSE 1)
    /\ cmd' = variant
    /\ patterns' = pats
    /\ force_search' = FALSE
    /\ client' = "none"
    /\ ResetSearch
    /\ ResetRead
    /\ IF MissingParameter(pats)
       THEN exit_code' = UsageError /\ pc' = "exited"
       ELSE exit_code' = -1 /\ pc' = "s_enter"
    /\ UNCHANGED envVars
    /\ UNCHANGED sideVars

\* _search_async up to the pattern loop: open the client, take the start
\* time, create ./tmp and name the snapshot file.  A failure to create the
\* directory is caught by the handler: the client is closed, exit status 1.
\* perform_search only opens the client.
SearchEnter ==
    /\ pc = "s_enter"
    /\ IF cmd = "nexus_search"
       THEN /\ client' = "open"
            /\ pat_idx' = 1
            /\ pc' = "s_pattern"
            /\ UNCHANGED << tmp_exists, json_file, exit_code >>
       ELSE \E mkdir_ok \in (IF tmp_exists THEN { TRUE } ELSE BOOLEAN) :
              IF mkdir_ok
              THEN /\ tmp_exists' = TRUE
                   /\ json_file' = SearchFileName(StrfTimestamp(Now(clock)))
                   /\ client' = "open"
                   /\ pat_idx' = 1
                   /\ pc' = "s_pattern"
                   /\ UNCHANGED exit_code
              ELSE /\ client' = Release("open")
                   /\ exit_code' = 1
                   /\ pc' = "exited"
                   /\ UNCHANGED << tmp_exists, json_file, pat_idx >>
    /\ UNCHANGED << clock, server, store, created, files, dirs, runs, cmd, patterns,
                    force_search, all_assets, count, continuation_token,
                    current_params, requests, responses, report, readVars >>
    /\ UNCHANGED sideVars

\* The head of one iteration of `for pattern in patterns`: build the search
\* parameters, reset the count, and call search_assets, which starts
\* _paginate with no token and a copy of the parameters.
SearchPattern ==
    /\ pc = "s_pattern"
    /\ pat_idx <= Len(patterns)
    /\ count' = 0
    /\ continuation_token' = None
    /\ current_params' = [repository |-> Repository, name |-> patterns[pat_idx]]
    /\ pc' = "s_page"
    /\ requests' = << >>
    /\ responses' = << >>
    /\ UNCHANGED << envVars, runs, cmd, exit_code, client, patterns, force_search,
                    pat_idx, json_file, all_assets, report, readVars >>
    /\ UNCHANGED sideVars

\* a paginator that does not thread the token into the next request
NextParamsStuck(params, token) == params

\* the parameters of the next request: the token of the last response, when
\* there is one, is written over the parameter continuationToken
NextParams(params, token) ==
    IF Falsy(token) THEN params
    ELSE [k \in DOMAIN params \cup { "continuationToken" } |->
            IF k = "continuationToken" THEN token ELSE params[k]]

\* a generator that skips the first item of each page
YieldLossy(items) == IF Len(items) = 0 THEN items ELSE Tail(items)

\* `for item in items: yield item`: the items one page hands to the consumer
Yield(items) == items

\* a generator that also stops at a page without items
ExhaustedOnEmpty(items, token) == Falsy(token) \/ Len(items) = 0

\* `if not continuation_token: break`
Exhausted(items, token) == Falsy(token)

\* a response check that lets every status pass
RaisesForStatusNever(status) == FALSE

\* response.raise_for_status(): raises for a status that is not a success
RaisesForStatus(status) == status # HttpOk

\* an aggregator that drops the assets it already holds
AccumulateDedup(acc, items) ==
    acc \o SelectSeq(items, LAMBDA x : \A j \in 1..Len(acc) : acc[j] # x)

\* all_assets.append(asset) for each item yielded
Accumulate(acc, items) == acc \o items

\* an error handler that saves what was found so far
StoreAfterErrorSaving(dir, f, objs) == WriteFile(dir, f, JsonDump(objs))

\* ./tmp after the handler of _search_async ran: it writes nothing
StoreAfterError(dir, f, objs) == dir

\* a download that goes on to the latest snapshot when its search failed
AfterSearchErrorFallsBack(c) == IF c = "download" THEN "d_find" ELSE "exited"

\* where control is after the handler of _search_async ran ctx.exit(1): the
\* Exit it raises ends the command; under `download --force-search` it is
\* caught by the handler of _download_async, which calls ctx.exit(1) too
AfterSearchError(c) == "exited"

\* The head of one iteration of the `while True` of _paginate: the token, if
\* any, goes into the parameters and `await self.client.get(...)` sends the
\* request; the coroutine is suspended until the response is there.
PaginateSend ==
    /\ pc = "s_page"
    /\ Begin([kind |-> "page", pattern |-> pat_idx, number |-> Len(responses) + 1])
    /\ UNCHANGED << envVars, runVars, searchVars, readVars, otherVars >>

\* The rest of the iteration, with the consumer's loop
\* body for each item it yields.  The response is there; a non-success status
\* raises out of the generator and out of the pattern loop.  In nexus_cli the
\* handler prints the error and exits with status 1 (under `download
\* --force-search` the exit propagates through the download handler, which
\* exits with 1 too); in nexus the exception ends the process with status 1.
\* Otherwise every item of the page is appended and counted, and a falsy
\* token ends the generator: nexus_cli reports the count, and the loop moves
\* on.
PaginateRequest ==
    /\ pc = "s_page"
    /\ awaiting.kind = "page"
    /\ Finish
    /\ LET params == NextParams(current_params, continuation_token) IN
       \E resp \in ServerResponses(server, params) :
         /\ current_params' = params
         /\ requests' = Append(requests, params)
         /\ responses' = Append(responses,
                [pattern |-> pat_idx, status |-> resp.status,
                 items |-> resp.items, token |-> resp.token])
         /\ IF RaisesForStatus(resp.status)
            THEN /\ client' = Release(client)
                 /\ exit_code' = 1
                 /\ pc' = AfterSearchError(cmd)
                 /\ store' = (IF cmd = "nexus_search" THEN store
                              ELSE StoreAfterError(store, json_file, all_assets))
                 /\ UNCHANGED << all_assets, count, continuation_token, pat_idx, report >>
            ELSE /\ all_assets' = Accumulate(all_assets, Yield(resp.items))
                 /\ count' = count + Len(Yield(resp.items))
                 /\ continuation_token' = resp.token
                 /\ IF Exhausted(resp.items, resp.token)
                    THEN /\ report' = (IF cmd = "nexus_search" THEN report
                                       ELSE Append(report, [pattern |-> patterns[pat_idx],
                                                            count |-> count']))
                         /\ pat_idx' = pat_idx + 1
                         /\ pc' = "s_pattern"
                    ELSE /\ pc' = "s_page"
                         /\ UNCHANGED << report, pat_idx >>
                 /\ UNCHANGED << client, exit_code, store >>
    /\ UNCHANGED << clock, server, tmp_exists, created, files, dirs, runs, cmd,
                    patterns, force_search, json_file, readVars >>
    /\ UNCHANGED otherVars

\* a writer that names the snapshot after the time of writing
SnapshotNameAtSave(f, t) == SearchFileName(StrfTimestamp(Now(t)))

\* `open(json_file, "w")`: the file written is the one named at the start
SnapshotName(f, t) == f

\* After the last pattern; the last generator is gone.  nexus_cli opens the
\* snapshot: `open(json_file, "w")` may fail (caught: exit status 1), or it
\* creates the file, or empties the one of that name, and the write is on.
SnapshotOpen ==
    /\ pc = "s_pattern"
    /\ pat_idx > Len(patterns)
    /\ cmd # "nexus_search"
    /\ awaiting = NoOp
    /\ \E open_ok \in BOOLEAN :
         IF open_ok
         THEN /\ store' = WriteFile(store, SnapshotName(json_file, clock), << >>)
              /\ created' = WriteFile(created, SnapshotName(json_file, clock), clock)
              /\ Begin([kind |-> "write", file |-> SnapshotName(json_file, clock)])
              /\ UNCHANGED << client, exit_code, pc, continuation_token,
                              current_params, requests, responses >>
         ELSE /\ client' = Release(client)
              /\ exit_code' = 1
              /\ pc' = "exited"
              /\ continuation_token' = None
              /\ current_params' = << >>
              /\ requests' = << >>
              /\ responses' = << >>
              /\ UNCHANGED << store, created, ioVars >>
    /\ UNCHANGED << clock, server, tmp_exists, files, dirs, runs, cmd, patterns,
                    force_search, pat_idx, json_file, all_assets, count, report,
                    readVars, otherVars >>

\* `json.dump(all_assets, f, ...)` and the end of the `with open`: the dump
\* may fail part-way (caught: exit status 1), or the whole list is written
\* and the command ends with status 0; a forced search returns to the
\* download command.  perform_search writes nothing and returns the list.
SearchSave ==
    /\ pc = "s_pattern"
    /\ pat_idx > Len(patterns)
    /\ client' = Release(client)
    /\ IF cmd = "nexus_search"
       THEN /\ awaiting = NoOp
            /\ exit_code' = 0
            /\ pc' = "exited"
            /\ UNCHANGED << store, ioVars >>
       ELSE /\ awaiting.kind = "write"
            /\ Finish
            /\ \E outcome \in { "written", "dump_fails" } :
                 LET text == JsonDump(all_assets) IN
                 /\ CASE outcome = "written" ->
                           store' = WriteFile(store, awaiting.file, text)
                      [] outcome = "dump_fails" ->
                           \E part \in PartialTexts(text) :
                              store' = WriteFile(store, awaiting.file, part)
                 /\ IF outcome # "written"
                    THEN exit_code' = 1 /\ pc' = "exited"
                    ELSE IF cmd = "download"
                         THEN exit_code' = -1 /\ pc' = "d_find"
                         ELSE exit_code' = 0 /\ pc' = "exited"
    /\ continuation_token' = None
    /\ current_params' = << >>
    /\ requests' = << >>
    /\ responses' = << >>
    /\ UNCHANGED << clock, server, tmp_exists, created, files, dirs, runs, cmd,
                    patterns, force_search, pat_idx, json_file, all_assets, count,
                    report, readVars, otherVars >>

\* ------------------------------------------------------------ local paths
\* A pathlib path under the working directory is the sequence of its
\* components; an absolute path starts with the component Anchor.
Anchor == << "/" >>
DigitChars == << "0", "1", "2", "3", "4", "5", "6", "7", "8", "9" >>

\* f"artifacts_{timestamp}"
RootName(timestamp) ==
    << "a", "r", "t", "i", "f", "a", "c", "t", "s", "_" >>
        \o [i \in 1..Len(timestamp) |-> DigitChars[timestamp[i] + 1]]

\* the components pathlib keeps of a str: empty and "." segments are dropped
Components(s) == SelectSeq(Split(s, Slash), LAMBDA c : c # << >> /\ c # << "." >>)

\* a join that puts the file beside the base instead of under it
PathJoinBeside(base, rel) ==
    IF Len(rel) > 0 /\ rel[1] = Slash
    THEN << Anchor >> \o Components(rel)
    ELSE SubSeq(base, 1, Len(base) - 1) \o Components(rel)

\* base / rel: a rel that starts with a slash replaces the base
PathJoin(base, rel) ==
    IF Len(rel) > 0 /\ rel[1] = Slash
    THEN << Anchor >> \o Components(rel)
    ELSE base \o Components(rel)

\* path.parent
Parent(path) == IF Len(path) = 0 THEN path ELSE SubSeq(path, 1, Len(path) - 1)

\* the path itself and the directories above it, down to the working directory
Ancestors(path) == { SubSeq(path, 1, n) : n \in 1..Len(path) }

\* mkdir(parents=True, exist_ok=True) succeeds unless the path or a directory
\* above it exists as a file
CanMkdir(path) == Ancestors(path) \cap files = { }

\* open(path, "wb") succeeds unless the path is a directory, or is the working
\* directory or the root of the file system, or lies under a file
CanOpenForWrite(path) ==
    /\ Len(path) > 0
    /\ path # << Anchor >>
    /\ path \notin dirs
    /\ Ancestors(Parent(path)) \cap files = { }

\* a derivation that keeps only the file name
RelativePathBaseName(path) ==
    LET path_parts == Split(path, Slash)
    IN path_parts[Len(path_parts)]

\* the destination of an asset relative to the destination root: the last two
\* segments of its path, or the only one
RelativePath(path) ==
    LET path_parts == Split(path, Slash)
    IN IF Len(path_parts) >= 2
       THEN Join(SubSeq(path_parts, Len(path_parts) - 1, Len(path_parts)), Slash)
       ELSE path_parts[Len(path_parts)]

\* ---------------------------------------------------------------- download
\* `nexus download [--force-search -p ...]`.  --force-search without a pattern
\* exits with status 1 before anything is searched; with patterns the search
\* command body runs first.  Patterns without --force-search are ignored.
DownloadInvoke(force, pats) ==
    /\ CanInvoke(IF ~force THEN 1 ELSE IF Len(pats) = 0 THEN 0 ELSE 2)
    /\ runs' = runs + (IF ~force THEN 1 ELSE IF Len(pats) = 0 THEN 0 ELSE 2)
    /\ cmd' = "download"
    /\ patterns' = pats
    /\ force_search' = force
    /\ client' = "none"
    /\ ResetSearch
    /\ ResetRead
    /\ IF force
       THEN IF Len(pats) = 0
            THEN exit_code' = 1 /\ pc' = "exited"
            ELSE exit_code' = -1 /\ pc' = "s_enter"
       ELSE exit_code' = -1 /\ pc' = "d_find"
    /\ UNCHANGED envVars
    /\ UNCHANGED sideVars

\* the directory of the snapshots, as a path component
TmpDir == << "t", "m", "p" >>

\* the values of --output-dir: "." (the default) and "tmp", as paths
OutputDirs == { << >>, << TmpDir >> }

\* the files of ./tmp that glob("search_*.json") finds
SearchFiles == { f \in DOMAIN store : GlobMatch(f) }

\* a loader that hands an empty list on to the batch
NoAssetsAccepted(value) == FALSE

\* `if not assets`: the decoded list has no element
NoAssets(value) == Len(value) = 0

\* From "Find latest JSON file" to the head of the asset loop: ./tmp must
\* exist and hold a snapshot, the last name in sorted order is read, and the
\* list must decode and be non-empty (otherwise exit status 1).  Then the
\* destination root named after the current time is created under the output
\* directory and the client is opened.
DownloadFind ==
    /\ pc = "d_find"
    /\ IF ~tmp_exists \/ SearchFiles = { }
       THEN /\ exit_code' = 1
            /\ pc' = "exited"
            /\ UNCHANGED << files, dirs, client, readVars >>
       ELSE \E output_dir \in OutputDirs :
            LET latest == LatestFile(SearchFiles)
                loaded == JsonLoad(store[latest])
                root == output_dir \o << RootName(StrfTimestamp(Now(clock))) >>
            IN /\ latest_file' = latest
               /\ IF ~loaded.ok \/ NoAssets(loaded.value)
                  THEN /\ exit_code' = 1
                       /\ pc' = "exited"
                       /\ assets' = loaded.value
                       /\ UNCHANGED << files, dirs, client, output_path, idx,
                                       success_count, fail_count >>
                  ELSE /\ assets' = loaded.value
                       /\ output_path' = root
                       /\ dirs' = dirs \cup Ancestors(root)
                       /\ client' = "open"
                       /\ idx' = 1
                       /\ success_count' = 0
                       /\ fail_count' = 0
                       /\ pc' = "d_loop"
                       /\ UNCHANGED << files, exit_code >>
               /\ UNCHANGED << outcomes, stale, listed >>
    /\ UNCHANGED << clock, server, tmp_exists, store, created, runs, cmd, patterns,
                    force_search, searchVars >>
    /\ UNCHANGED sideVars

\* a locator test that only looks for the field
NoLocatorFieldOnly(asset) == "downloadUrl" \notin DOMAIN asset

\* `download_url = asset.get("downloadUrl", ""); if not download_url`
NoLocator(asset) == Len(Get(asset, "downloadUrl", << >>)) = 0

\* One iteration of `for i, asset in enumerate(assets, 1)`, up to the call
\* of download_asset.  An asset without a locator is skipped and counted as
\* failed.  Otherwise the parent of the destination is created, outside the
\* try: when that fails the exception reaches the outer handler and the
\* command exits with status 1.  Inside the try, `await
\* client.download_asset(...)` starts the transfer and waits for it.
DownloadAsset ==
    /\ pc = "d_loop"
    /\ idx <= Len(assets)
    /\ awaiting = NoOp
    /\ LET asset == assets[idx]
           path == Get(asset, "path", << >>)
           dest_file == PathJoin(output_path, RelativePath(path))
       IN IF NoLocator(asset)
          THEN /\ fail_count' = fail_count + 1
               /\ outcomes' = Append(outcomes, "skipped")
               /\ idx' = idx + 1
               /\ UNCHANGED << dirs, client, exit_code, pc, ioVars >>
          ELSE IF ~CanMkdir(Parent(dest_file))
          THEN /\ client' = Release(client)
               /\ exit_code' = 1
               /\ pc' = "exited"
               /\ UNCHANGED << dirs, fail_count, outcomes, idx, ioVars >>
          ELSE /\ dirs' = dirs \cup Ancestors(Parent(dest_file))
               /\ Begin([kind |-> "download", asset |-> idx])
               /\ UNCHANGED << client, exit_code, pc, fail_count, outcomes, idx >>
    /\ UNCHANGED << clock, server, tmp_exists, store, created, files, runs, cmd,
                    patterns, force_search, searchVars, latest_file, assets,
                    output_path, success_count, stale, listed, otherVars >>

\* download_asset is over: the request may have failed, the file may not be
\* writable, the transfer may have broken after the file was opened (each is
\* caught, counted as a failure, and the loop goes on), or the file is
\* written and counted as a success.
DownloadAssetDone ==
    /\ pc = "d_loop"
    /\ idx <= Len(assets)
    /\ awaiting.kind = "download"
    /\ Finish
    /\ LET asset == assets[idx]
           path == Get(asset, "path", << >>)
           dest_file == PathJoin(output_path, RelativePath(path))
       IN \E transfer \in { "complete", "request_fails", "breaks" } :
            IF transfer = "request_fails" \/ ~CanOpenForWrite(dest_file)
            THEN /\ fail_count' = fail_count + 1
                 /\ outcomes' = Append(outcomes, "failed")
                 /\ idx' = idx + 1
                 /\ UNCHANGED << files, success_count >>
            ELSE /\ files' = files \cup { dest_file }
                 /\ IF transfer = "complete"
                    THEN /\ success_count' = success_count + 1
                         /\ outcomes' = Append(outcomes, "succeeded")
                         /\ idx' = idx + 1
                         /\ UNCHANGED fail_count
                    ELSE /\ fail_count' = fail_count + 1
                         /\ outcomes' = Append(outcomes, "failed")
                         /\ idx' = idx + 1
                         /\ UNCHANGED success_count
    /\ UNCHANGED << clock, server, tmp_exists, store, created, dirs, runs, cmd,
                    patterns, force_search, searchVars, latest_file, assets,
                    output_path, client, exit_code, pc, stale, listed, otherVars >>

\* After the last asset: the client is closed and the tallies are printed.
DownloadFinish ==
    /\ pc = "d_loop"
    /\ idx > Len(assets)
    /\ awaiting = NoOp
    /\ client' = Release(client)
    /\ exit_code' = 0
    /\ pc' = "exited"
    /\ UNCHANGED << envVars, runs, cmd, patterns, force_search, searchVars, readVars >>
    /\ UNCHANGED sideVars

\* -------------------------------------------------------------------- list
NotAvailable == << "N", "/", "A" >>

\* `nexus list` is invoked; it has no options.
ListInvoke ==
    /\ CanInvoke(1)
    /\ runs' = runs + 1
    /\ cmd' = "list"
    /\ patterns' = << >>
    /\ force_search' = FALSE
    /\ client' = "none"
    /\ exit_code' = -1
    /\ pc' = "l_find"
    /\ ResetSearch
    /\ ResetRead
    /\ UNCHANGED envVars
    /\ UNCHANGED sideVars

\* a stale branch that returns after the warning
StaleReturnsAlways(is_stale) == is_stale

\* `if file_date_str != today_str`: the branch only prints the warning, and
\* control goes on to the read of the file
StaleReturns(is_stale) == FALSE

\* The body of list_assets.  Every path returns normally, so the exit status
\* is 0 also when ./tmp or the snapshot is missing or cannot be decoded.
ListAssets ==
    /\ pc = "l_find"
    /\ exit_code' = 0
    /\ pc' = "exited"
    /\ IF ~tmp_exists \/ SearchFiles = { }
       THEN latest_file' = NoFile /\ assets' = << >> /\ stale' = FALSE /\ listed' = << >>
       ELSE LET latest == LatestFile(SearchFiles)
                is_stale == FileDate(latest) # StrfDate(Now(clock))
                loaded == IF StaleReturns(is_stale) THEN [ok |-> TRUE, value |-> << >>]
                          ELSE JsonLoad(store[latest])
            IN /\ latest_file' = latest
               /\ stale' = is_stale
               /\ assets' = loaded.value
               /\ listed' = [i \in 1..Len(loaded.value) |->
                               [repository |-> Get(loaded.value[i], "repository", NotAvailable),
                                path |-> Get(loaded.value[i], "path", NotAvailable)]]
    /\ UNCHANGED << envVars, runs, cmd, client, patterns, force_search, searchVars,
                    output_path, idx, success_count, fail_count, outcomes >>
    /\ UNCHANGED sideVars

Next ==
    \/ Tick
    \/ \E variant \in { "search", "nexus_search" }, pats \in SeqsUpTo(Patterns, MaxPatterns) :
          SearchInvoke(variant, pats)
    \/ SearchEnter
    \/ SearchPattern
    \/ PaginateSend
    \/ PaginateRequest
    \/ SnapshotOpen
    \/ SearchSave
    \/ \E force \in BOOLEAN :
          \E pats \in (IF force THEN SeqsUpTo(Patterns, MaxPatterns) ELSE { << >> }) :
             DownloadInvoke(force, pats)
    \/ DownloadFind
    \/ DownloadAsset
    \/ DownloadAssetDone
    \/ DownloadFinish
    \/ ListInvoke
    \/ ListAssets

Spec == Init /\ [][Next]_vars

\* The event loop resumes a coroutine whose request was answered, and a
\* generator that is iterated by `async for` runs on to its next request.
SpecFair == Spec /\ WF_vars(PaginateSend) /\ WF_vars(PaginateRequest)

\* ------------------------------------------------------------------ claims
Last(q) == q[Len(q)]

\* the items of each page received by the running generator
PageItems == [i \in 1..Len(responses) |-> responses[i].items]

\* what the running generator has yielded: the assets counted for its pattern
Yielded == SubSeq(all_assets, Len(all_assets) - count + 1, Len(all_assets))

\* the generator has just finished: its last page carried no token
Finished == pc = "s_pattern" /\ responses # << >>

\* the last page request was answered with a non-success status
Failed == responses # << >> /\ Last(responses).status # HttpOk

\* the pattern the generator was started for
GeneratorPattern == patterns[IF pc = "s_pattern" THEN pat_idx - 1 ELSE pat_idx]

\* pages received that carry a continuation token
TokenPages == { i \in 1..Len(responses) : ~Falsy(responses[i].token) }

\* C1: once a batch download has started, it ends with every asset of the
\* snapshot handled, in order: one outcome per asset, the success count is
\* the number of assets that streamed, and successes plus failures is the
\* number of assets.
C1_PartialFailure ==
    (cmd = "download" /\ pc = "exited" /\ output_path # << >>) =>
        /\ Len(outcomes) = Len(assets)
        /\ success_count = Cardinality({ i \in 1..Len(outcomes) : outcomes[i] = "succeeded" })
        /\ success_count + fail_count = Len(assets)

\* C2: what the paginator has yielded is the concatenation of the items of
\* the pages it received, in page order and within-page order, and its length
\* is the sum of the page sizes; when the last page (no token) has been
\* received, it is the whole list of matches the service holds.
C2_PaginatorOutput ==
    (pc \in { "s_page", "s_pattern" } /\ responses # << >>) =>
        /\ Yielded = Flatten(PageItems)
        /\ count = SumSeq([i \in 1..Len(responses) |-> Len(responses[i].items)])
        /\ Finished => Yielded = server.matches[GeneratorPattern]

\* two non-empty pages chained by a token were yielded to the end
C2_Witness ==
    /\ Finished
    /\ Len(responses) >= 2
    /\ \A i \in 1..Len(responses) : Len(responses[i].items) >= 1

\* C3: when the paginator has finished, it has made one request more than it
\* received pages carrying a token; exactly one when the first page carried
\* none.
C3_RequestCount ==
    Finished =>
        /\ Len(requests) = Cardinality(TokenPages) + 1
        /\ Falsy(responses[1].token) => Len(requests) = 1

\* two pages carried a token and three requests were made
C3_Witness == Finished /\ Cardinality(TokenPages) = 2 /\ Len(requests) = 3

\* C4: the first request carries the caller's parameters and no continuation
\* token; every later request carries the same parameters and the token of
\* the response just before it; a request is sent only after the previous one
\* was answered.
C4_CursorThreading ==
    requests # << >> =>
        /\ Len(requests) = Len(responses)
        /\ requests[1] = [repository |-> Repository, name |-> GeneratorPattern]
        /\ \A i \in 2..Len(requests) :
              /\ ~Falsy(responses[i - 1].token)
              /\ requests[i] = [repository |-> Repository, name |-> GeneratorPattern,
                                continuationToken |-> responses[i - 1].token]

\* a third request carried the second token, not the first
C4_Witness ==
    /\ Len(requests) >= 3
    /\ requests[3]["continuationToken"] # requests[2]["continuationToken"]

\* C5: when the request for page k is answered with a non-success status,
\* the consumer holds exactly the items of pages 1..k-1, the invocation ends
\* with the error (status 1), and no request follows the failed one.
C5_PaginatorFailure ==
    Failed =>
        /\ pc = "exited"
        /\ exit_code = 1
        /\ \A i \in 1..(Len(responses) - 1) : responses[i].status = HttpOk
        /\ Yielded = Flatten(SubSeq(PageItems, 1, Len(responses) - 1))
        /\ Len(requests) = Len(responses)

\* the second page request failed after a first page with items
C5_Witness == Failed /\ Len(responses) >= 2 /\ Len(Yielded) >= 1

\* C6: between patterns, the aggregated list is the concatenation of the
\* matches of the patterns searched so far, in the order the user gave them;
\* nothing is deduplicated, and the list is as long as the reported counts
\* add up to.
C6_AggregatorMerge ==
    pc = "s_pattern" =>
        /\ all_assets = Flatten([k \in 1..(pat_idx - 1) |-> server.matches[patterns[k]]])
        /\ cmd # "nexus_search" =>
              /\ Len(report) = pat_idx - 1
              /\ \A k \in 1..Len(report) :
                    /\ report[k].pattern = patterns[k]
                    /\ report[k].count = Len(server.matches[patterns[k]])
              /\ Len(all_assets) = SumSeq([k \in 1..Len(report) |-> report[k].count])

\* two different patterns were searched and an asset they both match is in
\* the list twice
C6_Witness ==
    /\ pc = "s_pattern"
    /\ pat_idx = 3
    /\ patterns[1] # patterns[2]
    /\ \E i, j \in 1..Len(all_assets) :
          /\ i <= Len(server.matches[patterns[1]])
          /\ j > Len(server.matches[patterns[1]])
          /\ all_assets[i] = all_assets[j]

\* the search body is running and has not reached the save
Searching ==
    \/ pc \in { "s_enter", "s_page" }
    \/ pc = "s_pattern" /\ pat_idx <= Len(patterns)

\* C7: a step in which a page request of the nexus_cli search fails leaves
\* the snapshot store as it was, ends the invocation with exit status 1 at
\* that pattern (no later pattern is reported or requested), and no step of
\* the search before the save writes to the store.
C7_AggregatorAbort ==
    [][ /\ (Failed' /\ cmd' \in { "search", "download" }) =>
              /\ store' = store
              /\ pc' = "exited"
              /\ exit_code' = 1
              /\ pat_idx' = pat_idx
              /\ Len(report') = pat_idx' - 1
              /\ \A i \in 1..Len(requests') : requests'[i]["name"] = patterns'[pat_idx']
        /\ Searching => store' = store ]_vars

\* the first of two patterns failed on its second page: assets were
\* accumulated, and the snapshot file of the search does not exist
C7_Witness ==
    /\ Failed
    /\ cmd = "search"
    /\ pc = "exited"
    /\ pat_idx < Len(patterns)
    /\ Len(all_assets) >= 1
    /\ json_file \notin DOMAIN store

\* C8: a step that leaves a search, or a download with --force-search,
\* invoked with no pattern has ended the invocation with a non-zero exit
\* status, with no client opened, no request sent and the store untouched.
C8_EmptyPatternList ==
    [][ ( /\ cmd' \in { "search", "nexus_search" } \/ (cmd' = "download" /\ force_search')
          /\ patterns' = << >> ) =>
              /\ pc' = "exited"
              /\ exit_code' \in { 1, UsageError }
              /\ client' = "none"
              /\ requests' = << >>
              /\ store' = store
              /\ tmp_exists' = tmp_exists ]_vars

\* a download with --force-search and no pattern has exited with status 1
C8_Witness ==
    /\ cmd = "download"
    /\ force_search
    /\ patterns = << >>
    /\ pc = "exited"
    /\ exit_code = 1

\* C9: in a download that ran a forced search, the list decoded from the
\* snapshot file the search wrote equals the list the search saved.
C9_SnapshotRoundTrip ==
    ( /\ cmd = "download"
      /\ force_search
      /\ latest_file # NoFile
      /\ latest_file = json_file ) => assets = all_assets

\* a list of several assets, one without a download locator, was read back
C9_Witness ==
    /\ cmd = "download"
    /\ force_search
    /\ latest_file # NoFile
    /\ latest_file = json_file
    /\ Len(assets) >= 2
    /\ \E i \in 1..Len(assets) : "downloadUrl" \notin DOMAIN assets[i]

\* C10: the snapshot that download or list has selected is a stored file
\* matching search_*.json, no other such file has a greater name, and none
\* was created later.
C10_LatestSelection ==
    (cmd \in { "download", "list" } /\ latest_file # NoFile) =>
        /\ latest_file \in SearchFiles
        /\ \A g \in SearchFiles :
              /\ g = latest_file \/ StrLess(g, latest_file)
              /\ created[g] <= created[latest_file]

\* list chose among two snapshots written in different months
C10_Witness ==
    /\ cmd = "list"
    /\ latest_file # NoFile
    /\ Cardinality(SearchFiles) >= 2
    /\ \E g \in SearchFiles : FileDate(g) # FileDate(latest_file)

\* C11: a list or download invocation (without forced search) that finds no
\* ./tmp directory, or no snapshot file in it, ends with exit status 1 and
\* has downloaded nothing.
C11_MissingSnapshotFatal ==
    ( /\ cmd \in { "list", "download" }
      /\ ~force_search
      /\ pc = "exited"
      /\ (~tmp_exists \/ SearchFiles = { }) ) =>
        /\ exit_code = 1
        /\ output_path = << >>
        /\ outcomes = << >>

\* the latest snapshot decodes to a list without elements
EmptyLatest ==
    /\ tmp_exists
    /\ SearchFiles # { }
    /\ JsonLoad(store[LatestFile(SearchFiles)]).ok
    /\ Len(JsonLoad(store[LatestFile(SearchFiles)]).value) = 0

\* C12: when the download command reads a latest snapshot that decodes to
\* zero assets (also the one a forced search that matched nothing has just
\* written), it exits with status 1; no destination root or other directory
\* is created, no file is written, the download client is not opened and no
\* asset is attempted.
C12_EmptySnapshot ==
    [][ (pc = "d_find" /\ pc' # "d_find" /\ EmptyLatest) =>
            /\ exit_code' = 1
            /\ pc' = "exited"
            /\ dirs' = dirs
            /\ files' = files
            /\ client' = client
            /\ client' # "open"
            /\ output_path' = << >>
            /\ idx' = 0
            /\ outcomes' = << >> ]_vars

C12_Witness ==
    /\ cmd = "download"
    /\ force_search
    /\ pc = "exited"
    /\ exit_code = 1
    /\ latest_file = json_file
    /\ latest_file # NoFile
    /\ EmptyLatest
    /\ all_assets = << >>
    /\ dirs = { }

\* the asset the batch is about to handle has no locator, or an empty one
AtUnlocated ==
    /\ pc = "d_loop"
    /\ idx <= Len(assets)
    /\ \/ "downloadUrl" \notin DOMAIN assets[idx]
       \/ assets[idx]["downloadUrl"] = << >>

\* C13: handling an asset whose download locator is missing or empty creates
\* no file and no directory, adds exactly one to the failure count, leaves
\* the success count as it is, and the batch goes on with the next asset.
C13_SkipWithoutLocator ==
    [][ AtUnlocated =>
            /\ files' = files
            /\ dirs' = dirs
            /\ fail_count' = fail_count + 1
            /\ success_count' = success_count
            /\ outcomes' = Append(outcomes, "skipped")
            /\ idx' = idx + 1
            /\ pc' = "d_loop"
            /\ exit_code' = exit_code ]_vars

\* a finished batch that skipped an asset without the field and one with an
\* empty locator, and downloaded another
C13_Witness ==
    /\ cmd = "download"
    /\ pc = "exited"
    /\ exit_code = 0
    /\ \E i, j, k \in 1..Len(assets) :
          /\ "downloadUrl" \notin DOMAIN assets[i] /\ outcomes[i] = "skipped"
          /\ "downloadUrl" \in DOMAIN assets[j] /\ assets[j]["downloadUrl"] = << >>
          /\ outcomes[j] = "skipped"
          /\ i < j
          /\ outcomes[k] = "succeeded"

\* ------------------------------------------- destination path derivation
\* The download command applied to a snapshot of one asset whose path is any
\* short string of letters and slashes, or one of the documented examples.
MaxPathLen == 4
PathChars == { "a", "b", Slash }
ExampleDeep == << "P", "/", "b", "u", "i", "l", "d", "/", "c", "o", "m", "p", "o", "n", "e", "n", "t", "-", "a", "/", "f", "i", "l", "e", ".", "t", "a", "r", ".", "g", "z" >>
ExampleDeepDestination == << "c", "o", "m", "p", "o", "n", "e", "n", "t", "-", "a", "/", "f", "i", "l", "e", ".", "t", "a", "r", ".", "g", "z" >>
ExampleSingle == << "o", "n", "l", "y", "n", "a", "m", "e" >>
DerivePaths == SeqsUpTo(PathChars, MaxPathLen) \cup { ExampleDeep, ExampleSingle }

DeriveInit ==
    /\ clock = 0
    /\ server \in { c \in Catalogues : c.last_token = None }
    /\ tmp_exists = TRUE
    /\ \E p \in DerivePaths :
          store = WriteFile(<< >>, EarlierFile,
                      JsonDump(<< [repository |-> << "r", "1" >>, path |-> p,
                                   downloadUrl |-> << "/", "u", "1" >>] >>))
    /\ created = WriteFile(<< >>, EarlierFile, EarlierClock)
    /\ runs = 0
    /\ cmd = "none"
    /\ pc = "idle"
    /\ exit_code = -1
    /\ client = "none"
    /\ patterns = << >>
    /\ force_search = FALSE
    /\ pat_idx = 0
    /\ json_file = NoFile
    /\ all_assets = << >>
    /\ count = 0
    /\ continuation_token = None
    /\ current_params = << >>
    /\ requests = << >>
    /\ responses = << >>
    /\ report = << >>
    /\ files = { }
    /\ dirs = { }
    /\ latest_file = NoFile
    /\ assets = << >>
    /\ output_path = << >>
    /\ idx = 0
    /\ success_count = 0
    /\ fail_count = 0
    /\ outcomes = << >>
    /\ stale = FALSE
    /\ listed = << >>
    /\ listing = NoListing
    /\ reader = NoReader
    /\ awaiting = NoOp
    /\ in_flight = << >>

DeriveNext ==
    \/ DownloadInvoke(FALSE, << >>)
    \/ DownloadFind
    \/ DownloadAsset
    \/ DownloadAssetDone
    \/ DownloadFinish

SpecDerive == DeriveInit /\ [][DeriveNext]_vars

\* the greatest element of a non-empty set of numbers
Max(S) == CHOOSE x \in S : \A y \in S : y <= x

\* the text after the last slash but one of a path, the whole path when it
\* has fewer than two slashes
LastTwoSegments(path) ==
    LET slashes == { i \in 1..Len(path) : path[i] = Slash }
    IN IF slashes = { } THEN path
       ELSE LET before == { i \in slashes : i < Max(slashes) }
            IN IF before = { } THEN path
               ELSE SubSeq(path, Max(before) + 1, Len(path))

\* C14: the relative destination of an asset is the last two slash-separated
\* segments of its path joined by a slash, or the single segment when there
\* is only one; the file a download writes is that destination under the
\* destination root.  "P/build/component-a/file.tar.gz" gives
\* "component-a/file.tar.gz" and "onlyname" gives "onlyname".
C14_DestinationDerivation ==
    [][ (pc = "d_loop" /\ idx <= Len(assets)) =>
            LET path == Get(assets[idx], "path", << >>) IN
            /\ RelativePath(path) = LastTwoSegments(path)
            /\ path = ExampleDeep => RelativePath(path) = ExampleDeepDestination
            /\ path = ExampleSingle => RelativePath(path) = ExampleSingle
            /\ files' # files =>
                  files' = files \cup { PathJoin(output_path, LastTwoSegments(path)) } ]_vars

C14_Witness ==
    /\ cmd = "download"
    /\ pc = "exited"
    /\ exit_code = 0
    /\ Len(assets) = 1
    /\ assets[1]["path"] = ExampleDeep
    /\ outcomes = << "succeeded" >>
    /\ files = { PathJoin(output_path, ExampleDeepDestination) }

\* C15: the destination root a download run creates did not exist before the
\* run, and no file of an earlier run lies under it.
C15_FreshDestinationRoot ==
    [][ (pc = "d_find" /\ pc' = "d_loop") =>
            /\ output_path' \notin dirs
            /\ \A f \in files : output_path' \notin Ancestors(f) ]_vars

\* the files under the destination root of the run
FilesUnderRoot == { f \in files : output_path \in Ancestors(f) }

\* C16: a download run in which every asset of the snapshot has a locator
\* and streams successfully ends with as many files under its destination
\* root as the snapshot has assets.
C16_EndToEndFileCount ==
    ( /\ cmd = "download"
      /\ pc = "exited"
      /\ exit_code = 0
      /\ Len(outcomes) = Len(assets)
      /\ \A i \in 1..Len(outcomes) : outcomes[i] = "succeeded" ) =>
        Cardinality(FilesUnderRoot) = Len(assets)

\* the search command of nexus_cli is between its start and its end
InSearch == cmd \in { "search", "download" } /\ pc \in { "s_pattern", "s_page" }

\* the search has just ended successfully
SearchSucceeded == (pc' = "exited" /\ exit_code' = 0) \/ pc' = "d_find"

\* C17: the snapshot file is named, before the first pattern is queried,
\* after the 14-digit timestamp of that moment; the name stays the same while
\* the patterns are aggregated, however long that takes; a search that
\* succeeds writes exactly that one file, holding the aggregated list, and
\* changes no other; and no other step adds, removes or rewrites a snapshot.
C17_SnapshotIdentity ==
    [][ /\ (pc = "s_enter" /\ pc' = "s_pattern" /\ cmd # "nexus_search") =>
              /\ json_file' = SearchFileName(StrfTimestamp(Now(clock)))
              /\ Len(StrfTimestamp(Now(clock))) = 14
        /\ InSearch => json_file' = json_file
        /\ (InSearch /\ SearchSucceeded) =>
              /\ DOMAIN store' = DOMAIN store \cup { json_file }
              /\ store'[json_file] = JsonDump(all_assets)
              /\ \A f \in DOMAIN store \ { json_file } : store'[f] = store[f]
        /\ ~InSearch => store' = store ]_vars

\* a search succeeded whose snapshot was written at a later second than the
\* one its name tells
C17_Witness ==
    /\ cmd = "search"
    /\ pc = "exited"
    /\ exit_code = 0
    /\ json_file \in DOMAIN store
    /\ created[json_file] > 0
    /\ json_file = SearchFileName(StrfTimestamp(Now(0)))
    /\ Len(all_assets) >= 2

RECURSIVE Number(_)
\* the number a sequence of decimal digits writes
Number(ds) == IF Len(ds) = 0 THEN 0 ELSE 10 * Number(SubSeq(ds, 1, Len(ds) - 1)) + ds[Len(ds)]

\* the 14 digits between "search_" and ".json" of a snapshot's name
Identifier(name) == [i \in 1..14 |-> name[Len(PrefixCodes) + i] - 48]

\* today's date as the number YYYYMMDD
Today == Now(clock).year * 10000 + Now(clock).month * 100 + Now(clock).day

\* C18: list reports the latest snapshot as stale exactly when the first 8
\* digits of its identifier are not today's date written YYYYMMDD; so a
\* snapshot whose identifier was taken at any second of today is not stale,
\* and one taken on an earlier day is.
C18_StalenessTest ==
    (cmd = "list" /\ pc = "exited" /\ latest_file # NoFile) =>
        /\ stale <=> (Number(SubSeq(Identifier(latest_file), 1, 8)) # Today)
        /\ \A t \in EarlierClock..clock :
              latest_file = SearchFileName(StrfTimestamp(Now(t))) =>
                 (stale <=> ( \/ Now(t).year # Now(clock).year
                              \/ Now(t).month # Now(clock).month
                              \/ Now(t).day # Now(clock).day ))

\* list was run after midnight on a snapshot taken before it
C18_Witness ==
    /\ cmd = "list"
    /\ pc = "exited"
    /\ latest_file # NoFile
    /\ stale
    /\ Now(clock).day = 1
    /\ Number(SubSeq(Identifier(latest_file), 7, 8)) = Base.day

\* the latest snapshot was taken on another day than today
StaleLatest ==
    /\ tmp_exists
    /\ SearchFiles # { }
    /\ Number(SubSeq(Identifier(LatestFile(SearchFiles)), 1, 8)) # Today

\* what the latest snapshot decodes to
LatestDecoded == JsonLoad(store[LatestFile(SearchFiles)])

\* C19: a stale latest snapshot is loaded and used like a fresh one.  list
\* warns, prints one "repository: path" line for every asset of it and exits
\* with status 0; download loads the whole list, creates its root, opens the
\* client and starts the batch at the first asset; a batch that ends with
\* status 0 has handled every asset.
C19_StalenessNeverBlocks ==
    [][ /\ (pc = "l_find" /\ pc' # "l_find" /\ StaleLatest) =>
              /\ stale'
              /\ exit_code' = 0
              /\ LatestDecoded.ok =>
                    /\ assets' = LatestDecoded.value
                    /\ Len(listed') = Len(LatestDecoded.value)
                    /\ \A i \in 1..Len(listed') :
                          /\ listed'[i].repository =
                                Get(LatestDecoded.value[i], "repository", NotAvailable)
                          /\ listed'[i].path = Get(LatestDecoded.value[i], "path", NotAvailable)
        /\ ( /\ pc = "d_find" /\ pc' # "d_find" /\ StaleLatest
             /\ LatestDecoded.ok /\ Len(LatestDecoded.value) > 0 ) =>
              /\ pc' = "d_loop"
              /\ assets' = LatestDecoded.value
              /\ idx' = 1
              /\ client' = "open"
              /\ output_path' \in dirs'
        /\ (cmd = "download" /\ pc = "d_loop" /\ pc' = "exited" /\ exit_code' = 0) =>
              /\ Len(outcomes) = Len(assets)
              /\ success_count + fail_count = Len(assets) ]_vars

\* a download of a snapshot taken the day before succeeded for every asset
C19_Witness ==
    /\ cmd = "download"
    /\ ~force_search
    /\ pc = "exited"
    /\ exit_code = 0
    /\ StaleLatest
    /\ Len(assets) >= 2
    /\ success_count = Len(assets)

\* a download without forced search is running
Downloading == cmd = "download" /\ ~force_search /\ pc \in { "d_find", "d_loop" }

MaxAnchors == 3
HttpNotFound == 404
HttpForbidden == 403

RECURSIVE LStrip(_, _)
\* s.lstrip(ch)
LStrip(s, ch) == IF Len(s) > 0 /\ s[1] = ch THEN LStrip(Tail(s), ch) ELSE s

RECURSIVE RStrip(_, _)
\* s.rstrip(ch)
RStrip(s, ch) ==
    IF Len(s) > 0 /\ s[Len(s)] = ch THEN RStrip(SubSeq(s, 1, Len(s) - 1), ch) ELSE s

\* s.strip(ch)
Strip(s, ch) == LStrip(RStrip(s, ch), ch)

\* the `path` arguments of list_directory
ListingPaths == { << >>, << "x" >>, << "/", "x", "/", "y", "/" >> }

\* One match of the link pattern `<a href="([^"]+)">([^<]+)</a>`: its two
\* groups, both non-empty.  An HTML page is the sequence of its matches.
Link(href, text) == [href |-> href, text |-> text]
ParentLink == Link(<< ".", ".", "/" >>, << "u", "p" >>)
SubLink == Link(<< "s", "u", "b", "/" >>, << "s", "u", "b", "/" >>)
FileLink == Link(<< "f", ".", "t", "x", "t" >>, << "f", ".", "t", "x", "t" >>)
SortLink == Link(<< "?", "C", "=", "N" >>, << "N", "a", "m", "e" >>)
QuestionTextLink == Link(<< "q" >>, << "?", "q" >>)
RootLink == Link(<< "/" >>, << "t", "o", "p" >>)
AnchorPool == { ParentLink, SubLink, FileLink, SortLink, QuestionTextLink, RootLink }
Pages == SeqsUpTo(AnchorPool, MaxAnchors)

\* what response.json() gives for a JSON listing
JsonListing == << [name |-> << "f", ".", "t", "x", "t" >>, path |-> << "f", ".", "t", "x", "t" >>, type |-> "file", repository |-> Repository] >>

\* The responses to the GET of the listing: a status, a content type and a
\* body.  An error response may carry an HTML page as well.
ContentTypes == { "application/json", "text/html", "text/plain" }
ListingResponses ==
    { [status |-> st, content_type |-> ct, html |-> h, json |-> j] :
        st \in { HttpOk, HttpNotFound, HttpForbidden, HttpServerError },
        ct \in ContentTypes,
        h \in Pages,
        j \in { << >>, JsonListing } }

\* a path rule that ignores the directory listed
EntryPathBare(base_path, name) == name

\* f"{base_path}/{name}".lstrip("/") if base_path else name
EntryPath(base_path, name) ==
    IF Len(base_path) > 0 THEN LStrip(base_path \o << Slash >> \o name, Slash) ELSE name

RECURSIVE ParseDirectoryHtml(_, _, _)
\* _parse_directory_html: the entries of the matches, in document order
ParseDirectoryHtml(html, repository, base_path) ==
    IF Len(html) = 0 THEN << >>
    ELSE LET href == Head(html).href
             is_directory == EndsWith(href, << Slash >>)
             name == RStrip(href, Slash)
             rest == ParseDirectoryHtml(Tail(html), repository, base_path)
         IN IF href = ParentLink.href THEN rest
            ELSE IF Len(name) > 0 /\ ~StartsWith(name, << "?" >>)
            THEN << [name |-> name,
                     path |-> EntryPath(base_path, name),
                     type |-> IF is_directory THEN "directory" ELSE "file",
                     repository |-> repository] >> \o rest
            ELSE rest

\* an error handler that swallows every status error
SwallowsStatusAlways(status) == TRUE

\* `if e.response.status_code == 404: return []`
SwallowsStatus(status) == status = HttpNotFound

\* list_directory is called: the path is stripped of slashes and the listing
\* of the repository, or of the path in it, is requested.
ListDirectoryCall(path) ==
    /\ listing.pc = "idle"
    /\ LET stripped == Strip(path, Slash)
       IN listing' = [pc |-> "requested",
                      path |-> stripped,
                      url |-> [repository |-> Repository, path |-> stripped,
                               slash |-> Len(stripped) = 0]]
    /\ UNCHANGED << envVars, runVars, searchVars, readVars, ioVars, reader >>

\* The response arrives.  raise_for_status raises for a status that is not a
\* success; the handler returns [] for 404 and re-raises otherwise.  A
\* success is decoded by its content type: JSON as it is, HTML through
\* _parse_directory_html, anything else gives [].
ListDirectoryRespond ==
    /\ listing.pc = "requested"
    /\ \E response \in ListingResponses :
          listing' =
             IF RaisesForStatus(response.status)
             THEN IF SwallowsStatus(response.status)
                  THEN [pc |-> "returned", path |-> listing.path, response |-> response,
                        entries |-> << >>]
                  ELSE [pc |-> "raised", path |-> listing.path, response |-> response,
                        entries |-> << >>]
             ELSE [pc |-> "returned", path |-> listing.path, response |-> response,
                   entries |->
                      IF response.content_type = "application/json" THEN response.json
                      ELSE IF response.content_type = "text/html"
                      THEN ParseDirectoryHtml(response.html, Repository, listing.path)
                      ELSE << >>]
    /\ UNCHANGED << envVars, runVars, searchVars, readVars, ioVars, reader >>

ListingNext ==
    \/ \E path \in ListingPaths : ListDirectoryCall(path)
    \/ ListDirectoryRespond

SpecListing == Init /\ [][ListingNext]_vars

\* C21: list_directory returns the empty list, and raises nothing, for a 404
\* response; for every other response that is not a success it raises; what
\* it returns for a response that is not a success has no entry.
C21_ListingStatus ==
    (listing.pc \in { "returned", "raised" }) =>
        /\ listing.response.status = HttpNotFound =>
              listing.pc = "returned" /\ listing.entries = << >>
        /\ listing.response.status \in { HttpForbidden, HttpServerError } =>
              listing.pc = "raised"
        /\ listing.response.status # HttpOk => listing.entries = << >>
        /\ listing.pc = "raised" => listing.response.status # HttpOk

\* a 404 response that carried an HTML page with a file link
C21_Witness ==
    /\ listing.pc = "returned"
    /\ listing.response.status = HttpNotFound
    /\ listing.response.content_type = "text/html"
    /\ listing.response.html = << SubLink, FileLink >>
    /\ listing.entries = << >>

\* an HTML page was listed successfully
ListedHtml ==
    /\ listing.pc = "returned"
    /\ listing.response.status = HttpOk
    /\ listing.response.content_type = "text/html"

\* name, path and type of the entries returned
EntryTriples ==
    [i \in 1..Len(listing.entries) |->
        [name |-> listing.entries[i].name, path |-> listing.entries[i].path,
         type |-> listing.entries[i].type]]

\* the entry described for one link
DescribedEntry(a, base_path) ==
    LET name == IF EndsWith(a.href, << Slash >>)
                THEN SubSeq(a.href, 1, Len(a.href) - 1) ELSE a.href
    IN [name |-> name,
        path |-> IF Len(base_path) = 0 THEN name ELSE base_path \o << Slash >> \o name,
        type |-> IF EndsWith(a.href, << Slash >>) THEN "directory" ELSE "file"]

\* the links that are described as excluded: the parent link and the links
\* whose href or text begins with a question mark
DescribedExcluded(a) ==
    \/ a.href = << ".", ".", "/" >>
    \/ a.href[1] = "?"
    \/ a.text[1] = "?"

\* the links the code excludes: the parent link, the links whose href begins
\* with a question mark, and the links whose href is made of slashes only
Excluded(a) ==
    \/ a.href = << ".", ".", "/" >>
    \/ a.href[1] = "?"
    \/ \A i \in 1..Len(a.href) : a.href[i] = Slash

\* C22 as stated: the entries of an HTML page are the described entries of
\* its links, in document order, without the parent link and the links whose
\* href or text begins with a question mark.
C22_ParsingAsStated ==
    ListedHtml =>
        EntryTriples =
            LET kept == SelectSeq(listing.response.html, LAMBDA a : ~DescribedExcluded(a))
            IN [i \in 1..Len(kept) |-> DescribedEntry(kept[i], listing.path)]

\* C22, amended: the entries of an HTML page are the described entries of its
\* links, in document order, without the parent link, the links whose href
\* begins with a question mark and the links whose href consists of slashes;
\* the text of a link is not looked at.  The links "../", "sub/", "f.txt"
\* listed at "x" give exactly {sub, x/sub, directory} and {f.txt, x/f.txt, file}.
C22_HtmlParsing ==
    ListedHtml =>
        /\ EntryTriples =
              LET kept == SelectSeq(listing.response.html, LAMBDA a : ~Excluded(a))
              IN [i \in 1..Len(kept) |-> DescribedEntry(kept[i], listing.path)]
        /\ (listing.response.html = << ParentLink, SubLink, FileLink >>
               /\ listing.path = << "x" >>) =>
              EntryTriples =
                 << [name |-> << "s", "u", "b" >>, path |-> << "x", "/", "s", "u", "b" >>, type |-> "directory"],
                    [name |-> << "f", ".", "t", "x", "t" >>, path |-> << "x", "/", "f", ".", "t", "x", "t" >>, type |-> "file"] >>

\* a page listed at "x/y" with a link excluded for its href, one kept although
\* its text begins with a question mark, and a directory
C22_Witness ==
    /\ ListedHtml
    /\ listing.path = << "x", "/", "y" >>
    /\ listing.response.html = << SortLink, QuestionTextLink, SubLink >>
    /\ Len(listing.entries) = 2


\* ------------------------------------------------------- sequential I/O
\* the sizes of the pages the running generator has received
PageSizes == [i \in 1..Len(responses) |-> Len(responses[i].items)]

\* C23: within one invocation at most one I/O operation (a page request, the
\* write of the snapshot, the download of one asset) is in flight.  A page
\* request in flight is the next of its generator, sent when the items of
\* every earlier page were delivered, for the pattern whose predecessors have
\* all finished; a download in flight is that of the asset following those
\* with a recorded outcome.
C23_SequentialIO ==
    /\ Len(in_flight) <= 1
    /\ \A i \in 1..Len(in_flight) :
         LET op == in_flight[i] IN
         /\ op.kind = "page" =>
              /\ op.pattern = pat_idx
              /\ op.number = Len(responses) + 1
              /\ count = SumSeq(PageSizes)
              /\ \A k \in 1..Len(responses) : ~Falsy(responses[k].token)
              /\ cmd # "nexus_search" => Len(report) = op.pattern - 1
         /\ op.kind = "write" => pat_idx > Len(patterns)
         /\ op.kind = "download" =>
              /\ op.asset = idx
              /\ Len(outcomes) = op.asset - 1

\* the second asset of a forced download is being transferred, after the
\* page requests and the snapshot write of its search
C23_Witness ==
    /\ cmd = "download"
    /\ force_search
    /\ Len(in_flight) = 1
    /\ in_flight[1].kind = "download"
    /\ in_flight[1].asset = 2
    /\ Len(outcomes) = 1


\* ----------------------------------------------------- transport release
\* C24: a transport is opened only where a command body enters its `async
\* with`; an open transport is left only by closing it, and it is closed by
\* the time the invocation has ended, however it ended; a closed transport
\* is not used again: it stays closed until a new invocation starts or, in a
\* forced download, until the download opens a transport of its own.
C24_TransportRelease ==
    [][ /\ pc' = "exited" => client' # "open"
        /\ (client = "open" /\ client' # "open") => client' = "closed"
        /\ (client # "open" /\ client' = "open") => pc \in { "s_enter", "d_find" }
        /\ (client = "closed" /\ client' # "closed") =>
              \/ client' = "none" /\ pc \in { "idle", "exited" }
              \/ client' = "open" /\ pc = "d_find" /\ force_search
        /\ (client = "open" /\ pc' = "d_find") => client' = "closed"
      ]_vars

\* a forced download aborted by an error in the asset loop: the transport of
\* the search and then that of the download were closed
C24_Witness ==
    /\ cmd = "download"
    /\ force_search
    /\ pc = "exited"
    /\ exit_code = 1
    /\ output_path # << >>
    /\ Len(outcomes) < Len(assets)
    /\ client = "closed"


\* ------------------------------------------- directory-creation failure
\* the batch is about to handle an asset with a locator whose destination
\* lies under a path that exists as a file
AtBlockedParent ==
    /\ pc = "d_loop"
    /\ idx <= Len(assets)
    /\ awaiting = NoOp
    /\ ~NoLocator(assets[idx])
    /\ ~CanMkdir(Parent(PathJoin(output_path,
                                 RelativePath(Get(assets[idx], "path", << >>)))))

\* C26: when the parent directory of an asset's destination cannot be
\* created, handling the asset adds one to the failure count and the batch
\* goes on with the next asset; a batch that has started ends with the tally,
\* exit status 0.
C26_MkdirFailureLocal ==
    [][ /\ AtBlockedParent =>
              /\ fail_count' = fail_count + 1
              /\ success_count' = success_count
              /\ idx' = idx + 1
              /\ pc' = "d_loop"
        /\ (pc = "d_loop" /\ pc' = "exited") =>
              /\ exit_code' = 0
              /\ idx > Len(assets)
      ]_vars


\* ------------------------------------------------- forced search failure
\* C28: a step in which a page request of the search of a forced download
\* fails ends the invocation with exit status 1: no snapshot has been
\* selected or read, no destination root exists, no directory or file was
\* created, no asset was handled, and no transport is open.
C28_ForcedSearchFailure ==
    [][ (Failed' /\ cmd' = "download" /\ force_search') =>
            /\ pc' = "exited"
            /\ exit_code' = 1
            /\ latest_file' = NoFile
            /\ assets' = << >>
            /\ output_path' = << >>
            /\ outcomes' = << >>
            /\ files' = files
            /\ dirs' = dirs
            /\ store' = store
            /\ client' # "open" ]_vars

\* the search of a forced download failed on the second of two patterns while
\* the store holds an older snapshot, which was not read
C28_Witness ==
    /\ cmd = "download"
    /\ force_search
    /\ Failed
    /\ pc = "exited"
    /\ pat_idx = 2
    /\ SearchFiles # { }
    /\ latest_file = NoFile


\* ------------------------------------------------- paginator termination
\* a response that carries no continuation token: the key is absent or null
\* (both read as None), or it is the empty string
NoToken(token) == token = None \/ token = ""

\* C29: when a page request is answered (with success) by a page without a
\* continuation token, the paginator yields the items of that page and ends
\* in the same step; no page request is begun by a generator that has
\* received such a page; and a generator that is running does end.
C29_PaginatorTermination ==
    /\ [][ /\ ( /\ Len(responses') = Len(responses) + 1
                /\ Last(responses').status = HttpOk
                /\ NoToken(Last(responses').token) ) =>
                   /\ pc' = "s_pattern"
                   /\ pat_idx' = pat_idx + 1
                   /\ all_assets' = all_assets \o Last(responses').items
                   /\ count' = count + Len(Last(responses').items)
                   /\ in_flight' = << >>
           /\ ( /\ Len(in_flight') > Len(in_flight)
                /\ Last(in_flight').kind = "page" ) =>
                   \A k \in 1..Len(responses) : ~NoToken(responses[k].token)
         ]_vars
    /\ (pc = "s_page") ~> (pc # "s_page")

\* a generator ended on its second page, which carried items and the empty
\* string for a token
C29_Witness ==
    /\ Finished
    /\ Len(responses) = 2
    /\ Last(responses).token = ""
    /\ Len(Last(responses).items) >= 1
    /\ Len(requests) = 2


\* ------------------------------------------------ destination containment
\* C25: every file a download writes lies below the destination root of its
\* run, whatever the path of the asset: also one that begins with a slash or
\* has empty segments.
C25_DestinationContainment ==
    [][ \A f \in files' \ files :
            /\ output_path \in Ancestors(f)
            /\ f # output_path ]_vars


\* ------------------------------------------------- forced search, then read
\* datetime.now() is the local wall clock, which is set back when summer time
\* ends or the clock is corrected.  The working directory holds the snapshot
\* that `nexus search -p "A/*"` left there before the clock was set back: it
\* is named after a reading later than any the commands below will take.
AheadClock == MaxClock + 1
AheadFile == SearchFileName(StrfTimestamp(Now(AheadClock)))

SkewInit ==
    /\ clock = 0
    /\ server \in Catalogues
    /\ tmp_exists = TRUE
    /\ store = WriteFile(<< >>, AheadFile, JsonDump(server.matches["A/*"]))
    /\ created = WriteFile(<< >>, AheadFile, EarlierClock)
    /\ runs = 0
    /\ cmd = "none"
    /\ pc = "idle"
    /\ exit_code = -1
    /\ client = "none"
    /\ patterns = << >>
    /\ force_search = FALSE
    /\ pat_idx = 0
    /\ json_file = NoFile
    /\ all_assets = << >>
    /\ count = 0
    /\ continuation_token = None
    /\ current_params = << >>
    /\ requests = << >>
    /\ responses = << >>
    /\ report = << >>
    /\ files = { }
    /\ dirs = { }
    /\ latest_file = NoFile
    /\ assets = << >>
    /\ output_path = << >>
    /\ idx = 0
    /\ success_count = 0
    /\ fail_count = 0
    /\ outcomes = << >>
    /\ stale = FALSE
    /\ listed = << >>
    /\ listing = NoListing
    /\ reader = NoReader
    /\ awaiting = NoOp
    /\ in_flight = << >>

SpecSkew == SkewInit /\ [][Next]_vars

\* C27: the snapshot a download with --force-search has selected is the one
\* its own search wrote, and the assets it handles are those the search
\* aggregated, whatever else the store holds.
C27_ForcedSearchFeedsDownload ==
    (cmd = "download" /\ force_search /\ latest_file # NoFile) =>
        /\ latest_file = json_file
        /\ assets = all_assets


\* --------------------------------------------- a reader in another process
\* Another process invokes `nexus list` or `nexus download` in the same
\* working directory while a search runs.
ReaderInvoke(kind) ==
    /\ reader.pc = "idle"
    /\ cmd = "search"
    /\ pc \in { "s_enter", "s_pattern", "s_page" }
    /\ reader' = [pc |-> "find", kind |-> kind]
    /\ UNCHANGED << envVars, runVars, searchVars, readVars, listing, ioVars >>

\* The reader's lookup: without ./tmp or a snapshot in it there is nothing to
\* read; otherwise the last name in sorted order is opened and decoded.  The
\* file is read as it is on disk at that moment: between `open(json_file,
\* "w")` and the end of json.dump in the writing process that is an empty or
\* unfinished text.
ReaderLoad ==
    /\ reader.pc = "find"
    /\ IF ~tmp_exists \/ SearchFiles = { }
       THEN reader' = [pc |-> "nothing", kind |-> reader.kind]
       ELSE LET latest == LatestFile(SearchFiles)
                loaded == JsonLoad(store[latest])
            IN reader' = [pc |-> "loaded", kind |-> reader.kind, file |-> latest,
                          ok |-> loaded.ok,
                          writing |-> (awaiting.kind = "write" /\ awaiting.file = latest),
                          complete |-> (loaded.ok /\ loaded.value = all_assets)]
    /\ UNCHANGED << envVars, runVars, searchVars, readVars, listing, ioVars >>

\* one search invocation, and one reader beside it
InterleavedNext ==
    \/ Tick
    \/ \E pats \in SeqsUpTo(Patterns, MaxPatterns) : runs = 0 /\ SearchInvoke("search", pats)
    \/ SearchEnter
    \/ SearchPattern
    \/ PaginateSend
    \/ PaginateRequest
    \/ SnapshotOpen
    \/ SearchSave
    \/ \E kind \in { "list", "download" } : ReaderInvoke(kind)
    \/ ReaderLoad

SpecInterleaved == Init /\ [][InterleavedNext]_vars

\* C30: a reader that runs beside a search and has selected the snapshot the
\* search is writing has decoded it, and holds exactly the assets the search
\* aggregated.
C30_SnapshotVisibility ==
    (reader.pc = "loaded" /\ reader.writing) =>
        /\ reader.ok
        /\ reader.complete

====
